---- MODULE Spec2Model ----
(***************************************************************************)
(* A model of the CO2 emission calculator: the route table and its lookup  *)
(* (RoutesDB), the configuration (CONFIG), the distance autofill handlers, *)
(* the calculation functions (Calculator) and the presenter (UI).          *)
(*                                                                         *)
(* Strings are sequences of UTF-16 code units, so that trim, toLowerCase,  *)
(* the default sort order and number formatting are computed, not assumed. *)
(***************************************************************************)
EXTENDS Integers, Sequences, FiniteSets, TLC

VARIABLES
    routes,           \* RoutesDB.routes
    CONFIG,           \* EMISSION_FACTORS, TRANSPORT_MODES, CARBON_CREDIT
    originInput,      \* #origin .value
    destinationInput, \* #destination .value
    distanceInput,    \* #distance .value
    readOnly,         \* #distance .readOnly
    helperText,       \* .calculadora__helper .textContent
    manualChecked,    \* #manual-distance .checked
    datalist,         \* options of #cities-list
    buttons,          \* the button elements: textContent, disabled, dataset
    lastOp,           \* the function or handler that ran last
    args,             \* the arguments of the last Calculator / UI call
    ret               \* what the last call returned

vars == <<routes, CONFIG, originInput, destinationInput, distanceInput,
          readOnly, helperText, manualChecked, datalist, buttons, lastOp,
          args, ret>>

formVars == <<originInput, destinationInput, distanceInput, readOnly,
              helperText, manualChecked, datalist>>

---------------------------------------------------------------------------
(* Bounds of the model *)

\* at most this many whitespace characters are typed around a city name
MaxPad == 1

---------------------------------------------------------------------------
(* JavaScript values *)

Null == [t |-> "null"]
Undefined == [t |-> "undefined"]
Num(n) == [t |-> "number", v |-> n]

\* the numbers that are not finite: 0 / 0 and x / 0
NaN == [t |-> "NaN"]
Infinity == [t |-> "Infinity"]
NegativeInfinity == [t |-> "-Infinity"]

\* isNaN, isFinite: told by the printed form of the value, as a finite number
\* and NaN or Infinity cannot be compared
isNaN(x) == ToString(x) = ToString(NaN)
isFinite(x) ==
    ToString(x) \notin {ToString(NaN), ToString(Infinity), ToString(NegativeInfinity)}

SetMin(S) == CHOOSE x \in S : \A y \in S : x <= y
SetMax(S) == CHOOSE x \in S : \A y \in S : x >= y

---------------------------------------------------------------------------
(* String primitives: String.prototype.trim, toLowerCase, toUpperCase and  *)
(* the code unit order of Array.prototype.sort                             *)

\* WhiteSpace and LineTerminator code units, as String.prototype.trim strips
IsWhiteSpace(c) ==
    c \in {9, 10, 11, 12, 13, 32, 160, 5760, 8232, 8233, 8239, 8287, 12288, 65279}
    \/ c \in 8192..8202

trim(s) ==
    LET keep == {i \in DOMAIN s : ~IsWhiteSpace(s[i])}
    IN  IF keep = {} THEN <<>> ELSE SubSeq(s, SetMin(keep), SetMax(keep))

\* Unicode lower case mapping of one code unit, for the code units of Basic
\* Latin and Latin-1 Supplement and the upper cases of their letters (U+0178
\* for y with diaeresis, U+039C for the micro sign); U+0131, the dotless i,
\* is a lower case letter and maps to itself
LowerChar(c) ==
    IF c \in 65..90 \/ c \in 192..214 \/ c \in 216..222 THEN c + 32
    ELSE IF c = 376 THEN 255
    ELSE IF c = 924 THEN 956
    ELSE c

\* Unicode upper case mapping of one code unit, for the same code units and
\* U+0131 (dotless i), whose upper case is U+0049 (I).  U+00DF (sharp s),
\* whose upper case is the two letters SS, is not among the characters typed
UpperChar(c) ==
    IF c \in 97..122 \/ c \in 224..246 \/ c \in 248..254 THEN c - 32
    ELSE IF c = 305 THEN 73
    ELSE IF c = 255 THEN 376
    ELSE IF c = 181 THEN 924
    ELSE c

toLowerCase(s) == [i \in DOMAIN s |-> LowerChar(s[i])]

toUpperCase(s) == [i \in DOMAIN s |-> UpperChar(s[i])]

\* s < t in the order Array.prototype.sort uses without a comparator:
\* code unit by code unit, a proper prefix first
StrLess(s, t) ==
    \E k \in 1..(Len(t)) :
        /\ \A j \in 1..(k - 1) : j <= Len(s) /\ s[j] = t[j]
        /\ \/ k = Len(s) + 1
           \/ k <= Len(s) /\ s[k] < t[k]

---------------------------------------------------------------------------
(* RoutesDB.routes: the city names of the table, then the table *)

\* "São Paulo, SP"  (config.js:194)
SaoPauloSp ==
    <<83, 227, 111, 32, 80, 97, 117, 108, 111, 44, 32, 83, 80>>

\* "Rio de Janeiro, RJ"  (config.js:194)
RioDeJaneiroRj ==
    <<82, 105, 111, 32, 100, 101, 32, 74, 97, 110, 101, 105, 114, 111, 44, 32, 82, 74>>

\* "Brasília, DF"  (config.js:195)
BrasiliaDf ==
    <<66, 114, 97, 115, 237, 108, 105, 97, 44, 32, 68, 70>>

\* "Belo Horizonte, MG"  (config.js:197)
BeloHorizonteMg ==
    <<66, 101, 108, 111, 32, 72, 111, 114, 105, 122, 111, 110, 116, 101, 44, 32, 77, 71>>

\* "Campinas, SP"  (config.js:202)
CampinasSp ==
    <<67, 97, 109, 112, 105, 110, 97, 115, 44, 32, 83, 80>>

\* "Santos, SP"  (config.js:203)
SantosSp ==
    <<83, 97, 110, 116, 111, 115, 44, 32, 83, 80>>

\* "Sorocaba, SP"  (config.js:204)
SorocabaSp ==
    <<83, 111, 114, 111, 99, 97, 98, 97, 44, 32, 83, 80>>

\* "Niterói, RJ"  (config.js:205)
NiteroiRj ==
    <<78, 105, 116, 101, 114, 243, 105, 44, 32, 82, 74>>

\* "Petrópolis, RJ"  (config.js:206)
PetropolisRj ==
    <<80, 101, 116, 114, 243, 112, 111, 108, 105, 115, 44, 32, 82, 74>>

\* "Ouro Preto, MG"  (config.js:207)
OuroPretoMg ==
    <<79, 117, 114, 111, 32, 80, 114, 101, 116, 111, 44, 32, 77, 71>>

\* "Betim, MG"  (config.js:208)
BetimMg ==
    <<66, 101, 116, 105, 109, 44, 32, 77, 71>>

\* "Ribeirão Preto, SP"  (config.js:209)
RibeiraoPretoSp ==
    <<82, 105, 98, 101, 105, 114, 227, 111, 32, 80, 114, 101, 116, 111, 44, 32, 83, 80>>

\* "Curitiba, PR"  (config.js:212)
CuritibaPr ==
    <<67, 117, 114, 105, 116, 105, 98, 97, 44, 32, 80, 82>>

\* "Porto Alegre, RS"  (config.js:214)
PortoAlegreRs ==
    <<80, 111, 114, 116, 111, 32, 65, 108, 101, 103, 114, 101, 44, 32, 82, 83>>

\* "Florianópolis, SC"  (config.js:216)
FlorianopolisSc ==
    <<70, 108, 111, 114, 105, 97, 110, 243, 112, 111, 108, 105, 115, 44, 32, 83, 67>>

\* "Salvador, BA"  (config.js:220)
SalvadorBa ==
    <<83, 97, 108, 118, 97, 100, 111, 114, 44, 32, 66, 65>>

\* "Recife, PE"  (config.js:221)
RecifePe ==
    <<82, 101, 99, 105, 102, 101, 44, 32, 80, 69>>

\* "Fortaleza, CE"  (config.js:223)
FortalezaCe ==
    <<70, 111, 114, 116, 97, 108, 101, 122, 97, 44, 32, 67, 69>>

\* "Feira de Santana, BA"  (config.js:225)
FeiraDeSantanaBa ==
    <<70, 101, 105, 114, 97, 32, 100, 101, 32, 83, 97, 110, 116, 97, 110, 97, 44, 32, 66, 65>>

\* "Caruaru, PE"  (config.js:226)
CaruaruPe ==
    <<67, 97, 114, 117, 97, 114, 117, 44, 32, 80, 69>>

\* "Manaus, AM"  (config.js:229)
ManausAm ==
    <<77, 97, 110, 97, 117, 115, 44, 32, 65, 77>>

\* "Belém, PA"  (config.js:230)
BelemPa ==
    <<66, 101, 108, 233, 109, 44, 32, 80, 65>>

\* "Palmas, TO"  (config.js:232)
PalmasTo ==
    <<80, 97, 108, 109, 97, 115, 44, 32, 84, 79>>

\* "Goiânia, GO"  (config.js:236)
GoianiaGo ==
    <<71, 111, 105, 226, 110, 105, 97, 44, 32, 71, 79>>

\* "Cuiabá, MT"  (config.js:237)
CuiabaMt ==
    <<67, 117, 105, 97, 98, 225, 44, 32, 77, 84>>

\* "Campo Grande, MS"  (config.js:239)
CampoGrandeMs ==
    <<67, 97, 109, 112, 111, 32, 71, 114, 97, 110, 100, 101, 44, 32, 77, 83>>


RoutesDB_routes ==
  <<
    [origin |-> SaoPauloSp, destination |-> RioDeJaneiroRj, distanceKm |-> 430],
    [origin |-> SaoPauloSp, destination |-> BrasiliaDf, distanceKm |-> 1015],
    [origin |-> RioDeJaneiroRj, destination |-> BrasiliaDf, distanceKm |-> 1148],
    [origin |-> BeloHorizonteMg, destination |-> RioDeJaneiroRj, distanceKm |-> 515],
    [origin |-> BeloHorizonteMg, destination |-> SaoPauloSp, distanceKm |-> 585],
    [origin |-> BeloHorizonteMg, destination |-> BrasiliaDf, distanceKm |-> 738],
    [origin |-> SaoPauloSp, destination |-> CampinasSp, distanceKm |-> 95],
    [origin |-> SaoPauloSp, destination |-> SantosSp, distanceKm |-> 72],
    [origin |-> SaoPauloSp, destination |-> SorocabaSp, distanceKm |-> 108],
    [origin |-> RioDeJaneiroRj, destination |-> NiteroiRj, distanceKm |-> 13],
    [origin |-> RioDeJaneiroRj, destination |-> PetropolisRj, distanceKm |-> 68],
    [origin |-> BeloHorizonteMg, destination |-> OuroPretoMg, distanceKm |-> 100],
    [origin |-> BeloHorizonteMg, destination |-> BetimMg, distanceKm |-> 35],
    [origin |-> CampinasSp, destination |-> RibeiraoPretoSp, distanceKm |-> 250],
    [origin |-> CuritibaPr, destination |-> SaoPauloSp, distanceKm |-> 408],
    [origin |-> CuritibaPr, destination |-> RioDeJaneiroRj, distanceKm |-> 835],
    [origin |-> CuritibaPr, destination |-> PortoAlegreRs, distanceKm |-> 815],
    [origin |-> PortoAlegreRs, destination |-> BrasiliaDf, distanceKm |-> 1825],
    [origin |-> FlorianopolisSc, destination |-> CuritibaPr, distanceKm |-> 505],
    [origin |-> FlorianopolisSc, destination |-> PortoAlegreRs, distanceKm |-> 685],
    [origin |-> SalvadorBa, destination |-> BrasiliaDf, distanceKm |-> 1535],
    [origin |-> SalvadorBa, destination |-> RecifePe, distanceKm |-> 840],
    [origin |-> SalvadorBa, destination |-> SaoPauloSp, distanceKm |-> 1938],
    [origin |-> RecifePe, destination |-> FortalezaCe, distanceKm |-> 785],
    [origin |-> FortalezaCe, destination |-> BrasiliaDf, distanceKm |-> 2149],
    [origin |-> SalvadorBa, destination |-> FeiraDeSantanaBa, distanceKm |-> 109],
    [origin |-> RecifePe, destination |-> CaruaruPe, distanceKm |-> 135],
    [origin |-> ManausAm, destination |-> BrasiliaDf, distanceKm |-> 2820],
    [origin |-> ManausAm, destination |-> BelemPa, distanceKm |-> 1800],
    [origin |-> BelemPa, destination |-> BrasiliaDf, distanceKm |-> 2144],
    [origin |-> PalmasTo, destination |-> BrasiliaDf, distanceKm |-> 970],
    [origin |-> ManausAm, destination |-> RioDeJaneiroRj, distanceKm |-> 3220],
    [origin |-> BrasiliaDf, destination |-> GoianiaGo, distanceKm |-> 209],
    [origin |-> BrasiliaDf, destination |-> CuiabaMt, distanceKm |-> 990],
    [origin |-> GoianiaGo, destination |-> BrasiliaDf, distanceKm |-> 209],
    [origin |-> CampoGrandeMs, destination |-> BrasiliaDf, distanceKm |-> 1255],
    [origin |-> CuritibaPr, destination |-> BeloHorizonteMg, distanceKm |-> 820],
    [origin |-> PortoAlegreRs, destination |-> RioDeJaneiroRj, distanceKm |-> 1460],
    [origin |-> SalvadorBa, destination |-> BrasiliaDf, distanceKm |-> 1535],
    [origin |-> FortalezaCe, destination |-> RioDeJaneiroRj, distanceKm |-> 2761]
  >>

---------------------------------------------------------------------------
(* Numbers of CONFIG, the Calculator and the UI.  A JavaScript number x    *)
(* that is a decimal fraction of at most four places is held as the        *)
(* integer x * 10^4; every quantity of the calculator is such a number.    *)
(* The arithmetic is exact decimal arithmetic, done in partial products    *)
(* and digit by digit so that no intermediate value leaves 32 bits.        *)

Unit == 10 ^ 4

\* the number m * 10^(-e), for 0 <= e <= 4
Dec(m, e) == m * 10 ^ (4 - e)

\* a * b to four places, the places beyond the fourth dropped.  The products
\* of the calculator are rounded to two places next, a tie going up, and
\* that rounding of the dropped product is the rounding of the exact one
Mul(a, b) ==
    LET ah == a \div Unit
        al == a % Unit
        bh == b \div Unit
        bl == b % Unit
    IN  ah * bh * Unit + ah * bl + al * bh + (al * bl) \div Unit

\* a / b rounded to four places, a tie going up, for b > 0
Quot(a, b) ==
    LET q0 == a \div b
        r0 == a % b
        d1 == (10 * r0) \div b
        r1 == (10 * r0) % b
        d2 == (10 * r1) \div b
        r2 == (10 * r1) % b
        d3 == (10 * r2) \div b
        r3 == (10 * r2) % b
        d4 == (10 * r3) \div b
        r4 == (10 * r3) % b
    IN  q0 * Unit + d1 * 1000 + d2 * 100 + d3 * 10 + d4
        + (IF 2 * r4 >= b THEN 1 ELSE 0)

\* x rounded to `places` decimals, a tie going up: Math.round(x * 10^p) / 10^p
RoundTo(x, places) ==
    LET step == 10 ^ (4 - places)
    IN  ((2 * x + step) \div (2 * step)) * step

\* (a / b) * 100 rounded to two decimals, a tie going up, for b > 0
PercentOf(a, b) == 100 * Quot(a, b)

---------------------------------------------------------------------------
(* CONFIG: emission factors, mode metadata, carbon credit settings.        *)
(* The numbers are in the units of Dec.                                    *)

\* the car factor mistyped as 0.21
EMISSION_FACTORS_CarMistyped ==
    [bicycle |-> Dec(0, 0), car |-> Dec(21, 2), bus |-> Dec(89, 3),
     truck |-> Dec(96, 2)]

EMISSION_FACTORS ==
    [bicycle |-> Dec(0, 0),     \* 0
     car     |-> Dec(12, 2),    \* 0.12
     bus     |-> Dec(89, 3),    \* 0.089
     truck   |-> Dec(96, 2)]    \* 0.96

\* the modes declared in alphabetical order
ModeOrderAlphabetical == <<"bicycle", "bus", "car", "truck">>

\* Object.keys(CONFIG.EMISSION_FACTORS): the declaration order of the modes
ModeOrder == <<"bicycle", "car", "bus", "truck">>

Modes == {ModeOrder[i] : i \in DOMAIN ModeOrder}

TRANSPORT_MODES ==
  [
    bicycle |->
        [label |-> <<66, 105, 99, 105, 99, 108, 101, 116, 97>>,   \* "Bicicleta"
         icon  |-> <<55357, 57010>>,   \* U+1F6B2
         color |-> <<35, 51, 98, 56, 50, 102, 54>>],   \* "#3b82f6"
    car |->
        [label |-> <<67, 97, 114, 114, 111>>,   \* "Carro"
         icon  |-> <<55357, 56983>>,   \* U+1F697
         color |-> <<35, 101, 102, 52, 52, 52, 52>>],   \* "#ef4444"
    bus |->
        [label |-> <<212, 110, 105, 98, 117, 115>>,   \* "Ônibus"
         icon  |-> <<55357, 56972>>,   \* U+1F68C
         color |-> <<35, 102, 53, 57, 101, 48, 98>>],   \* "#f59e0b"
    truck |->
        [label |-> <<67, 97, 109, 105, 110, 104, 227, 111>>,   \* "Caminhão"
         icon  |-> <<55357, 56986>>,   \* U+1F69A
         color |-> <<35, 54, 51, 54, 54, 102, 49>>]   \* "#6366f1"
  ]

KG_PER_CREDIT == Dec(1000, 0)

PRICE_MIN_BRL == Dec(50, 0)

PRICE_MAX_BRL == Dec(150, 0)

\* the two prices exchanged
CARBON_CREDIT_PricesSwapped ==
    [KG_PER_CREDIT |-> KG_PER_CREDIT,
     PRICE_MIN_BRL |-> PRICE_MAX_BRL,
     PRICE_MAX_BRL |-> PRICE_MIN_BRL]

CARBON_CREDIT ==
    [KG_PER_CREDIT |-> KG_PER_CREDIT,
     PRICE_MIN_BRL |-> PRICE_MIN_BRL,
     PRICE_MAX_BRL |-> PRICE_MAX_BRL]

CONFIG_0 ==
    [EMISSION_FACTORS |-> EMISSION_FACTORS,
     TRANSPORT_MODES  |-> TRANSPORT_MODES,
     CARBON_CREDIT    |-> CARBON_CREDIT]

---------------------------------------------------------------------------
(* RoutesDB.getAllCities *)

\* the names in the order forEach visits them: origin, destination of each route
VisitOrder(rs) ==
    [k \in 1..(2 * Len(rs)) |->
        IF k % 2 = 1 THEN rs[(k + 1) \div 2].origin ELSE rs[k \div 2].destination]

\* the elements of seq at the positions idx, in the order of seq
Pick(seq, idx) ==
    [m \in 1..Cardinality(idx) |->
        seq[CHOOSE k \in idx : Cardinality({j \in idx : j <= k}) = m]]

\* new Set() filled by cities.add(...), then Array.from: insertion order, a
\* name already present is not added again
CollectCities(rs) ==
    LET visit == VisitOrder(rs)
    IN  Pick(visit, {k \in DOMAIN visit : \A j \in 1..(k - 1) : visit[j] # visit[k]})

\* the elements of seq, the one of rank p at place p
Place(seq, ranks) ==
    [p \in DOMAIN seq |-> seq[CHOOSE i \in DOMAIN seq : ranks[i] = p]]

\* a sort that leaves the array as it was
sortNothing(seq) == seq

\* Array.prototype.sort() without a comparator: ascending by code units and
\* stable, so the element at i lands after the smaller ones and the equal
\* ones before it
sort(seq) ==
    Place(seq, [i \in DOMAIN seq |->
                  1 + Cardinality({j \in DOMAIN seq :
                                      \/ StrLess(seq[j], seq[i])
                                      \/ seq[j] = seq[i] /\ j < i})] \o <<>>)

getAllCities(rs) == sort(CollectCities(rs))

---------------------------------------------------------------------------
(* RoutesDB.findDistance *)

\* findDistance searching the stored orientation only
findDistanceOneWay(rs, origin, destination) ==
    LET normalizedOrigin == toLowerCase(trim(origin))
        normalizedDestination == toLowerCase(trim(destination))
        hits == {i \in DOMAIN rs :
                    /\ toLowerCase(rs[i].origin) = normalizedOrigin
                    /\ toLowerCase(rs[i].destination) = normalizedDestination}
    IN  IF hits = {} THEN Null ELSE Num(rs[SetMin(hits)].distanceKm)

\* findDistance without the trim of its inputs
findDistanceNoTrim(rs, origin, destination) ==
    LET normalizedOrigin == toLowerCase(origin)
        normalizedDestination == toLowerCase(destination)
        matches(r) ==
            \/ /\ toLowerCase(r.origin) = normalizedOrigin
               /\ toLowerCase(r.destination) = normalizedDestination
            \/ /\ toLowerCase(r.origin) = normalizedDestination
               /\ toLowerCase(r.destination) = normalizedOrigin
        hits == {i \in DOMAIN rs : matches(rs[i])}
    IN  IF hits = {} THEN Null ELSE Num(rs[SetMin(hits)].distanceKm)

\* findDistance comparing the trimmed inputs with the names as stored
findDistanceCaseSensitive(rs, origin, destination) ==
    LET normalizedOrigin == trim(origin)
        normalizedDestination == trim(destination)
        matches(r) ==
            \/ r.origin = normalizedOrigin /\ r.destination = normalizedDestination
            \/ r.origin = normalizedDestination /\ r.destination = normalizedOrigin
        hits == {i \in DOMAIN rs : matches(rs[i])}
    IN  IF hits = {} THEN Null ELSE Num(rs[SetMin(hits)].distanceKm)

findDistance(rs, origin, destination) ==
    LET normalizedOrigin == toLowerCase(trim(origin))
        normalizedDestination == toLowerCase(trim(destination))
        matches(r) ==
            \/ /\ toLowerCase(r.origin) = normalizedOrigin
               /\ toLowerCase(r.destination) = normalizedDestination
            \/ /\ toLowerCase(r.origin) = normalizedDestination
               /\ toLowerCase(r.destination) = normalizedOrigin
        hits == {i \in DOMAIN rs : matches(rs[i])}
    IN  IF hits = {} THEN Null ELSE Num(rs[SetMin(hits)].distanceKm)

---------------------------------------------------------------------------
(* What is typed into the origin and destination fields *)

\* "Natal, RN": a city of no route
NatalRn ==
    <<78, 97, 116, 97, 108, 44, 32, 82, 78>>

\* "Nıteróı, RJ": Niterói typed with U+0131, the dotless i
NiteroiDotless ==
    <<78, 305, 116, 101, 114, 243, 305, 44, 32, 82, 74>>

\* every letter of s in its other case
SwapChar(c) == IF UpperChar(c) # c THEN UpperChar(c) ELSE LowerChar(c)

swapCase(s) == [i \in DOMAIN s |-> SwapChar(s[i])]

CaseForms(s) == {s, toLowerCase(s), toUpperCase(s), swapCase(s)}

\* p spaces, s, q tabs
Pad(s, p, q) == [i \in 1..p |-> 32] \o s \o [i \in 1..q |-> 9]

Paddings == {pq \in (0..MaxPad) \X (0..MaxPad) : pq[1] + pq[2] <= MaxPad}

TypedNames == {NiteroiRj, NiteroiDotless, NatalRn, <<>>}

StoredCities ==
    {RoutesDB_routes[i].origin : i \in DOMAIN RoutesDB_routes}
    \cup {RoutesDB_routes[i].destination : i \in DOMAIN RoutesDB_routes}

Inputs ==
    StoredCities
    \cup {Pad(f, pq[1], pq[2]) : f \in UNION {CaseForms(n) : n \in TypedNames},
                                 pq \in Paddings}

---------------------------------------------------------------------------
(* CONFIG.setupDistanceAutofill: the handlers it installs *)

\* helperText.textContent of each outcome; the texts are kept as ASCII strings,
\* their accents dropped and the leading check mark and warning sign left out
HelperDefault == "A distancia sera preenchida automaticamente"
HelperFound == "Distancia encontrada automaticamente"
HelperNotFound == "Rota nao encontrada. Marque inserir distancia manualmente para prosseguir"
HelperManual == "Digite a distancia manualmente em quilometros"

\* the decimal digits of a natural number, most significant first
RECURSIVE Digits(_)
Digits(n) == IF n < 10 THEN <<48 + n>> ELSE Append(Digits(n \div 10), 48 + (n % 10))

\* distanceInput.value = distance: String(distance) of a whole number of km
NumberToString(n) == IF n < 0 THEN <<45>> \o Digits(-n) ELSE Digits(n)

\* attemptAutofill leaving the value of the field as it is when no route is
\* found
attemptAutofillKeepingValue(rs, originValue, destinationValue) ==
    LET origin == trim(originValue)
        destination == trim(destinationValue)
        distance == findDistance(rs, origin, destination)
    IN  IF origin = <<>> \/ destination = <<>>
        THEN [value |-> <<>>, readOnly |-> TRUE, helper |-> HelperDefault]
        ELSE IF distance.t # "null"
        THEN [value |-> NumberToString(distance.v), readOnly |-> TRUE,
              helper |-> HelperFound]
        ELSE [value |-> distanceInput, readOnly |-> TRUE, helper |-> HelperNotFound]

\* the [value, readOnly, helper] that attemptAutofill leaves in the form
attemptAutofill(rs, originValue, destinationValue) ==
    LET origin == trim(originValue)
        destination == trim(destinationValue)
        distance == findDistance(rs, origin, destination)
    IN  IF origin = <<>> \/ destination = <<>>
        THEN [value |-> <<>>, readOnly |-> TRUE, helper |-> HelperDefault]
        ELSE IF distance.t # "null"
        THEN [value |-> NumberToString(distance.v), readOnly |-> TRUE,
              helper |-> HelperFound]
        ELSE [value |-> <<>>, readOnly |-> TRUE, helper |-> HelperNotFound]

\* the text of the submit button, the text hideLoading falls back to, and
\* the text of the button of the carbon credits section
TextCalculate == "Calcular Emissao"
TextFallback == "Calcular Emissao"
TextCompensate == "Compensar Emissoes"

\* textContent after innerHTML = '<span class="spinner"></span> Calculando...'
TextLoading == " Calculando..."

\* a button as the page creates it.  dataset.originalText is <<>> while the
\* attribute is not set and <<text>> once it is
Button(text) == [textContent |-> text, disabled |-> FALSE, originalText |-> <<>>]

\* the submit button, the button of the carbon credits section, and a button
\* that has no text
ButtonIds == {"calculate", "compensate", "plain"}

Buttons_0 ==
    [b \in ButtonIds |->
        IF b = "calculate" THEN Button(TextCalculate)
        ELSE IF b = "compensate" THEN Button(TextCompensate)
        ELSE Button("")]

Init ==
    /\ routes = RoutesDB_routes
    /\ CONFIG = CONFIG_0
    /\ originInput = <<>>
    /\ destinationInput = <<>>
    /\ distanceInput = <<>>
    /\ readOnly = TRUE
    /\ helperText = HelperDefault
    /\ manualChecked = FALSE
    /\ datalist = <<>>
    /\ buttons = Buttons_0
    /\ lastOp = "load"
    /\ args = [op |-> "none"]
    /\ ret = Undefined

\* an event handler ran: it takes no argument of the model and returns nothing
Handled(name) ==
    /\ lastOp' = name
    /\ args' = [op |-> name]
    /\ ret' = Undefined
    /\ UNCHANGED buttons

\* handleLocationChange attempting the autofill whatever the checkbox says
handleLocationChangeUnchecked(origin, destination) ==
    \E f \in {attemptAutofill(routes, origin, destination)} :
        /\ distanceInput' = f.value
        /\ readOnly' = f.readOnly
        /\ helperText' = f.helper

\* handleLocationChange after the field values origin, destination are set
handleLocationChange(origin, destination) ==
    IF ~manualChecked
    THEN \E f \in {attemptAutofill(routes, origin, destination)} :
             /\ distanceInput' = f.value
             /\ readOnly' = f.readOnly
             /\ helperText' = f.helper
    ELSE UNCHANGED <<distanceInput, readOnly, helperText>>

\* a 'change' event of #origin, the user having typed o
ChangeOrigin(o) ==
    /\ originInput' = o
    /\ handleLocationChange(o, destinationInput)
    /\ Handled("handleLocationChange")
    /\ UNCHANGED <<routes, CONFIG, destinationInput, manualChecked, datalist>>

\* a 'change' event of #destination, the user having typed d
ChangeDestination(d) ==
    /\ destinationInput' = d
    /\ handleLocationChange(originInput, d)
    /\ Handled("handleLocationChange")
    /\ UNCHANGED <<routes, CONFIG, originInput, manualChecked, datalist>>

\* handleManualDistanceToggle leaving the field read-only when the box is
\* checked
ToggleManualKeepingReadOnly ==
    /\ manualChecked' = ~manualChecked
    /\ IF manualChecked'
       THEN /\ distanceInput' = <<>>
            /\ helperText' = HelperManual
            /\ UNCHANGED readOnly
       ELSE \E f \in {attemptAutofill(routes, originInput, destinationInput)} :
                /\ distanceInput' = f.value
                /\ readOnly' = f.readOnly
                /\ helperText' = f.helper
    /\ Handled("handleManualDistanceToggle")
    /\ UNCHANGED <<routes, CONFIG, originInput, destinationInput, datalist>>

\* a 'change' event of #manual-distance: the box is toggled, then
\* handleManualDistanceToggle runs
ToggleManual ==
    /\ manualChecked' = ~manualChecked
    /\ IF manualChecked'
       THEN /\ readOnly' = FALSE
            /\ distanceInput' = <<>>
            /\ helperText' = HelperManual
       ELSE \E f \in {attemptAutofill(routes, originInput, destinationInput)} :
                /\ distanceInput' = f.value
                /\ readOnly' = f.readOnly
                /\ helperText' = f.helper
    /\ Handled("handleManualDistanceToggle")
    /\ UNCHANGED <<routes, CONFIG, originInput, destinationInput, datalist>>

\* the user types the distance v into #distance, which takes input while it
\* is not read-only; no listener is attached to the field
TypeDistance(v) ==
    /\ ~readOnly
    /\ distanceInput' = v
    /\ Handled("typeDistance")
    /\ UNCHANGED <<routes, CONFIG, originInput, destinationInput, readOnly,
                   helperText, manualChecked, datalist>>

\* CONFIG.populateDatalist: the list is cleared, then one option per city
populateDatalist ==
    /\ datalist' = getAllCities(routes)
    /\ Handled("populateDatalist")
    /\ UNCHANGED <<routes, CONFIG, originInput, destinationInput, distanceInput,
                   readOnly, helperText, manualChecked>>

\* getAllCities sorting this.routes itself, by origin, before it collects
CallGetAllCitiesSortingRoutes ==
    /\ lastOp' = "getAllCities"
    /\ args' = [op |-> "getAllCities"]
    /\ routes' = Place(routes,
                       [i \in DOMAIN routes |->
                          1 + Cardinality({j \in DOMAIN routes :
                                \/ StrLess(routes[j].origin, routes[i].origin)
                                \/ routes[j].origin = routes[i].origin /\ j < i})]
                       \o <<>>)
    /\ ret' = getAllCities(routes')
    /\ UNCHANGED <<CONFIG, buttons>>
    /\ UNCHANGED formVars

\* a call of RoutesDB.getAllCities()
CallGetAllCities ==
    /\ lastOp' = "getAllCities"
    /\ args' = [op |-> "getAllCities"]
    /\ ret' = getAllCities(routes)
    /\ UNCHANGED <<routes, CONFIG, buttons>>
    /\ UNCHANGED formVars

\* a call of RoutesDB.findDistance(o, d)
CallFindDistance(o, d) ==
    /\ lastOp' = "findDistance"
    /\ args' = [op |-> "findDistance", origin |-> o, destination |-> d]
    /\ ret' = findDistance(routes, o, d)
    /\ UNCHANGED <<routes, CONFIG, buttons>>
    /\ UNCHANGED formVars


---------------------------------------------------------------------------
(* Calculator (js/calculator.js) *)

\* CONFIG.EMISSION_FACTORS[transportMode]; a mode outside the set has none
factorFor(cfg, mode) ==
    IF mode \in DOMAIN cfg.EMISSION_FACTORS
    THEN Num(cfg.EMISSION_FACTORS[mode])
    ELSE [t |-> "InvalidModeError"]

calculateEmission(cfg, distanceKm, transportMode) ==
    LET factor == factorFor(cfg, transportMode)
    IN  IF factor.t # "number" THEN factor
        ELSE Num(RoundTo(Mul(distanceKm, factor.v), 2))

\* the entries with the division by the car emission unguarded: 0 / 0 is
\* NaN, and x / 0 is Infinity
ModeResultsUnguarded(cfg, distanceKm) ==
    LET carEmission == calculateEmission(cfg, distanceKm, "car").v
    IN  [i \in DOMAIN ModeOrder |->
            LET emission == calculateEmission(cfg, distanceKm, ModeOrder[i]).v
            IN  [mode |-> ModeOrder[i],
                 emission |-> emission,
                 percentageVsCar |->
                    IF carEmission # 0 THEN PercentOf(emission, carEmission)
                    ELSE IF emission = 0 THEN NaN
                    ELSE Infinity]]

\* one entry per mode, in declaration order, before the sort
ModeResults(cfg, distanceKm) ==
    LET carEmission == calculateEmission(cfg, distanceKm, "car").v
    IN  [i \in DOMAIN ModeOrder |->
            LET emission == calculateEmission(cfg, distanceKm, ModeOrder[i]).v
            IN  [mode |-> ModeOrder[i],
                 emission |-> emission,
                 percentageVsCar |->
                    IF carEmission = 0 THEN 0 ELSE PercentOf(emission, carEmission)]]

\* sort by emission, lowest first; the sort is stable
sortByEmission(seq) ==
    Place(seq, [i \in DOMAIN seq |->
                  1 + Cardinality({j \in DOMAIN seq :
                                      \/ seq[j].emission < seq[i].emission
                                      \/ seq[j].emission = seq[i].emission /\ j < i})])

calculateAllModes(cfg, distanceKm) == sortByEmission(ModeResults(cfg, distanceKm))

\* the percentage with the division by the baseline unguarded: 0 / 0 is NaN,
\* and x / 0 is Infinity with the sign of x
calculateSavingsUnguarded(emission, baselineEmission) ==
    LET savedKg == baselineEmission - emission
    IN  [savedKg |-> RoundTo(savedKg, 2),
         percentage |->
            IF baselineEmission # 0 THEN PercentOf(savedKg, baselineEmission)
            ELSE IF savedKg = 0 THEN NaN
            ELSE IF savedKg > 0 THEN Infinity
            ELSE NegativeInfinity]

calculateSavings(emission, baselineEmission) ==
    LET savedKg == baselineEmission - emission
    IN  [savedKg |-> RoundTo(savedKg, 2),
         percentage |->
            IF baselineEmission = 0 THEN 0 ELSE PercentOf(savedKg, baselineEmission)]

calculateCarbonCredits(cfg, emissionKg) ==
    Quot(emissionKg, cfg.CARBON_CREDIT.KG_PER_CREDIT)

estimateCreditPrice(cfg, credits) ==
    LET min == Mul(credits, cfg.CARBON_CREDIT.PRICE_MIN_BRL)
        max == Mul(credits, cfg.CARBON_CREDIT.PRICE_MAX_BRL)
        average == (min + max) \div 2
    IN  [min |-> RoundTo(min, 2), max |-> RoundTo(max, 2),
         average |-> RoundTo(average, 2)]

---------------------------------------------------------------------------
(* UI: formatNumber, formatCurrency and the three render functions.  A     *)
(* render function returns the values its template interpolates.           *)

\* the decimal digits of n in exactly `width` places
ZeroPad(n, width) == [i \in 1..width |-> 48 + ((n \div 10 ^ (width - i)) % 10)]

\* the pt-BR grouping: a "." before every group of three digits
RECURSIVE Group(_)
Group(ds) ==
    IF Len(ds) <= 3 THEN ds
    ELSE Group(SubSeq(ds, 1, Len(ds) - 3)) \o <<46>> \o SubSeq(ds, Len(ds) - 2, Len(ds))

\* toLocaleString('pt-BR', {minimumFractionDigits: d, maximumFractionDigits: d})
\* of the magnitude: rounded to d places, a tie going away from zero
FormatMagnitude(x, decimals) ==
    LET step == 10 ^ (4 - decimals)
        r == (2 * x + step) \div (2 * step)
        whole == r \div 10 ^ decimals
        frac == r % 10 ^ decimals
    IN  Group(Digits(whole))
        \o (IF decimals = 0 THEN <<>> ELSE <<44>> \o ZeroPad(frac, decimals))

\* NaN is formatted as "NaN" and Infinity as the infinity sign
formatNumber(number, decimals) ==
    IF ~isFinite(number)
    THEN IF isNaN(number) THEN <<78, 97, 78>>
         ELSE IF number = Infinity THEN <<8734>>
         ELSE <<45, 8734>>
    ELSE IF number < 0 THEN <<45>> \o FormatMagnitude(-number, decimals)
    ELSE FormatMagnitude(number, decimals)

\* "R$", a no-break space, the amount with two decimals
formatCurrency(value) ==
    IF value < 0 THEN <<45, 82, 36, 160>> \o FormatMagnitude(-value, 2)
    ELSE <<82, 36, 160>> \o FormatMagnitude(value, 2)

\* the properties every object literal inherits from Object.prototype
ObjectPrototype ==
    {"constructor", "hasOwnProperty", "isPrototypeOf", "propertyIsEnumerable",
     "toLocaleString", "toString", "valueOf", "__proto__"}

\* an inherited property: a function, or Object.prototype itself, which has
\* no property of its own that the templates read
Inherited == [t |-> "inherited"]

\* obj[key] of an object literal: its own property, else the inherited one,
\* else undefined
Get(obj, key) ==
    IF key \in DOMAIN obj THEN obj[key]
    ELSE IF key \in ObjectPrototype THEN Inherited
    ELSE Undefined

\* renderResults showing the savings card whenever savings are supplied
renderResultsSavingsForCar(cfg, data) ==
    LET modeInfo == Get(cfg.TRANSPORT_MODES, data.mode)
        showSavings == data.savings # Undefined
    IN  IF modeInfo = Undefined THEN [t |-> "TypeError"]
        ELSE [t |-> "html",
              origin |-> data.origin,
              destination |-> data.destination,
              distance |-> formatNumber(data.distance, 1),
              emission |-> formatNumber(data.emission, 2),
              color |-> Get(modeInfo, "color"),
              icon |-> Get(modeInfo, "icon"),
              label |-> Get(modeInfo, "label"),
              savings |->
                IF showSavings
                THEN [shown |-> TRUE,
                      savedKg |-> formatNumber(data.savings.savedKg, 2),
                      percentage |-> formatNumber(data.savings.percentage, 1)]
                ELSE [shown |-> FALSE]]

renderResults(cfg, data) ==
    LET modeInfo == Get(cfg.TRANSPORT_MODES, data.mode)
        showSavings == data.mode # "car" /\ data.savings # Undefined
    IN  IF modeInfo = Undefined THEN [t |-> "TypeError"]
        ELSE [t |-> "html",
              origin |-> data.origin,
              destination |-> data.destination,
              distance |-> formatNumber(data.distance, 1),
              emission |-> formatNumber(data.emission, 2),
              color |-> Get(modeInfo, "color"),
              icon |-> Get(modeInfo, "icon"),
              label |-> Get(modeInfo, "label"),
              savings |->
                IF showSavings
                THEN [shown |-> TRUE,
                      savedKg |-> formatNumber(data.savings.savedKg, 2),
                      percentage |-> formatNumber(data.savings.percentage, 1)]
                ELSE [shown |-> FALSE]]

ColorGreen == "#10b981"
ColorAmber == "#f59e0b"
ColorOrange == "#f97316"
ColorRed == "#ef4444"

TipBicycle == "Bicicleta e a opcao mais sustentavel! Zero emissoes de CO2."
TipBus == "Usar onibus e uma otima opcao! Compartilhar transporte reduz emissoes por pessoa."
TipOther == "Considere usar transporte publico ou bicicleta para reduzir emissoes."

\* Math.max(...modeArray.map(m => m.emission))
MaxEmission(modeArray) == SetMax({modeArray[i].emission : i \in DOMAIN modeArray})

\* (emission / maxEmission) * 100, kept as the fraction; 0 / 0 is NaN
BarPercentage(emission, maxEmission) ==
    IF maxEmission = 0 THEN NaN
    ELSE [t |-> "number", num |-> emission, den |-> maxEmission]

\* getBarColor: every comparison with NaN is false
getBarColor(emission, maxEmission) ==
    IF maxEmission = 0 THEN ColorRed
    ELSE IF 4 * emission <= maxEmission THEN ColorGreen
    ELSE IF 4 * emission <= 3 * maxEmission THEN ColorAmber
    ELSE IF emission <= maxEmission THEN ColorOrange
    ELSE ColorRed

renderComparison(modeArray, selectedMode) ==
    LET maxEmission == MaxEmission(modeArray)
        bestMode == modeArray[1]
    IN  [t |-> "html",
         items |->
            [i \in DOMAIN modeArray |->
                LET mode == modeArray[i]
                    isSelected == mode.mode = selectedMode
                IN  [selected |-> isSelected,
                     badge |-> isSelected,
                     icon |-> Get(mode, "icon"),
                     label |-> Get(mode, "label"),
                     emission |-> formatNumber(mode.emission, 2),
                     percentageVsCar |-> formatNumber(mode.percentageVsCar, 1),
                     barWidth |-> BarPercentage(mode.emission, maxEmission),
                     barColor |-> getBarColor(mode.emission, maxEmission)]],
         tip |-> IF bestMode.mode = "bicycle" THEN TipBicycle
                 ELSE IF bestMode.mode = "bus" THEN TipBus
                 ELSE TipOther]

renderCarbonoCredits(creditsData) ==
    [t |-> "html",
     credits |-> formatNumber(creditsData.credits, 4),
     average |-> formatCurrency(creditsData.price.average),
     min |-> formatCurrency(creditsData.price.min),
     max |-> formatCurrency(creditsData.price.max)]

---------------------------------------------------------------------------
(* Calls of the Calculator and of the UI render functions *)

\* a call of Calculator or UI leaves the table, CONFIG and the form alone
CallFrame ==
    /\ UNCHANGED <<routes, CONFIG, buttons>>
    /\ UNCHANGED formVars

CallCalculateEmission(distanceKm, transportMode) ==
    /\ lastOp' = "calculateEmission"
    /\ args' = [op |-> "calculateEmission", distanceKm |-> distanceKm,
                transportMode |-> transportMode]
    /\ ret' = calculateEmission(CONFIG, distanceKm, transportMode)
    /\ CallFrame

CallCalculateAllModes(distanceKm) ==
    /\ lastOp' = "calculateAllModes"
    /\ args' = [op |-> "calculateAllModes", distanceKm |-> distanceKm]
    /\ ret' = calculateAllModes(CONFIG, distanceKm)
    /\ CallFrame

CallCalculateSavings(emission, baselineEmission) ==
    /\ lastOp' = "calculateSavings"
    /\ args' = [op |-> "calculateSavings", emission |-> emission,
                baselineEmission |-> baselineEmission]
    /\ ret' = calculateSavings(emission, baselineEmission)
    /\ CallFrame

CallCalculateCarbonCredits(emissionKg) ==
    /\ lastOp' = "calculateCarbonCredits"
    /\ args' = [op |-> "calculateCarbonCredits", emissionKg |-> emissionKg]
    /\ ret' = calculateCarbonCredits(CONFIG, emissionKg)
    /\ CallFrame

CallEstimateCreditPrice(credits) ==
    /\ lastOp' = "estimateCreditPrice"
    /\ args' = [op |-> "estimateCreditPrice", credits |-> credits]
    /\ ret' = estimateCreditPrice(CONFIG, credits)
    /\ CallFrame

CallRenderResults(data) ==
    /\ lastOp' = "renderResults"
    /\ args' = [op |-> "renderResults", data |-> data]
    /\ ret' = renderResults(CONFIG, data)
    /\ CallFrame

CallRenderComparison(modeArray, selectedMode) ==
    /\ lastOp' = "renderComparison"
    /\ args' = [op |-> "renderComparison", modeArray |-> modeArray,
                selectedMode |-> selectedMode]
    /\ ret' = renderComparison(modeArray, selectedMode)
    /\ CallFrame

CallRenderCarbonoCredits(creditsData) ==
    /\ lastOp' = "renderCarbonoCredits"
    /\ args' = [op |-> "renderCarbonoCredits", creditsData |-> creditsData]
    /\ ret' = renderCarbonoCredits(creditsData)
    /\ CallFrame

\* UI.showLoading(buttonElement), the element being the button b
showLoading(b) ==
    /\ buttons' = [buttons EXCEPT
                     ![b].originalText = <<buttons[b].textContent>>,
                     ![b].disabled = TRUE,
                     ![b].textContent = TextLoading]
    /\ lastOp' = "showLoading"
    /\ args' = [op |-> "showLoading", button |-> b]
    /\ ret' = Undefined
    /\ UNCHANGED <<routes, CONFIG>>
    /\ UNCHANGED formVars

\* UI.hideLoading(buttonElement): dataset.originalText || 'Calcular Emissão',
\* an attribute that is not set or is the empty string being falsy
hideLoading(b) ==
    /\ buttons' = [buttons EXCEPT
                     ![b].disabled = FALSE,
                     ![b].textContent =
                        IF buttons[b].originalText # <<>>
                            /\ buttons[b].originalText[1] # ""
                        THEN buttons[b].originalText[1]
                        ELSE TextFallback]
    /\ lastOp' = "hideLoading"
    /\ args' = [op |-> "hideLoading", button |-> b]
    /\ ret' = Undefined
    /\ UNCHANGED <<routes, CONFIG>>
    /\ UNCHANGED formVars

---------------------------------------------------------------------------
(* The arguments of the calls: distances typed by hand or found in the     *)
(* table, and what the calculator derives from them                        *)

\* a distance typed by hand has two decimals and is at most MaxHundredths / 100 km
MaxHundredths == 12

TableDistances == {Dec(RoutesDB_routes[i].distanceKm, 0) : i \in DOMAIN RoutesDB_routes}

TypedDistances == {Dec(t, 2) : t \in 0..MaxHundredths}

\* what the Calculator, on the configuration cfg, derives from a trip of d km
\* by mode m and hands on to the next call
EmissionOf(cfg, d, m) == calculateEmission(cfg, d, m).v

SavingsOf(cfg, d, m) ==
    calculateSavings(EmissionOf(cfg, d, m), EmissionOf(cfg, d, "car"))

CreditsOf(cfg, d, m) == calculateCarbonCredits(cfg, EmissionOf(cfg, d, m))

\* mode keys outside {bicycle, car, bus, truck}
UnknownModes == {"plane", "constructor"}

\* emissions compared outside a trip, <<emission, baseline>>: two that differ
\* by 0.01 kg in 200 kg, either way, and 0.01 kg against a baseline of 0.02 kg
SavingsPairs ==
    {<<Dec(20001, 2), Dec(20000, 2)>>, <<Dec(20000, 2), Dec(20001, 2)>>,
     <<Dec(1, 2), Dec(2, 2)>>, <<Dec(2, 2), Dec(1, 2)>>}

\* the data object of renderResults for the trip
ResultData(cfg, d, m, savings) ==
    [origin |-> SaoPauloSp, destination |-> RioDeJaneiroRj, distance |-> d,
     emission |-> EmissionOf(cfg, d, m), mode |-> m, savings |-> savings]

CreditsData(cfg, c) == [credits |-> c, price |-> estimateCreditPrice(cfg, c)]

\* the calls made for the trip, each with its arguments
TripArgs(cfg, d, m) ==
    {[op |-> "calculateEmission", distanceKm |-> d, transportMode |-> m],
     [op |-> "calculateAllModes", distanceKm |-> d],
     [op |-> "calculateSavings", emission |-> EmissionOf(cfg, d, m),
      baselineEmission |-> EmissionOf(cfg, d, "car")],
     [op |-> "calculateCarbonCredits", emissionKg |-> EmissionOf(cfg, d, m)],
     [op |-> "estimateCreditPrice", credits |-> CreditsOf(cfg, d, m)],
     \* the savings object is passed or left out
     [op |-> "renderResults", data |-> ResultData(cfg, d, m, Undefined)],
     [op |-> "renderResults",
      data |-> ResultData(cfg, d, m, SavingsOf(cfg, d, m))],
     [op |-> "renderComparison",
      modeArray |-> calculateAllModes(cfg, d), selectedMode |-> m],
     [op |-> "renderCarbonoCredits",
      creditsData |-> CreditsData(cfg, CreditsOf(cfg, d, m))]}

---------------------------------------------------------------------------
(* The page: from the loaded form, any sequence of change events and calls *)

\* what the user types into #origin and #destination
FormInputs ==
    {<<>>, SaoPauloSp, Pad(toLowerCase(RioDeJaneiroRj), 1, 1), NatalRn}

\* what the user types into #distance: 12 km
FormTyped == {NumberToString(12)}

\* the distance calculated on the page: São Paulo - Rio de Janeiro
FormDistances == {Dec(RoutesDB_routes[1].distanceKm, 0)}

\* the distance d was calculated for the mode m: the calls made for the trip
TripCall(d, m) ==
    \/ CallCalculateEmission(d, m)
    \/ CallCalculateAllModes(d)
    \/ CallCalculateSavings(EmissionOf(CONFIG, d, m), EmissionOf(CONFIG, d, "car"))
    \/ CallCalculateCarbonCredits(EmissionOf(CONFIG, d, m))
    \/ CallEstimateCreditPrice(CreditsOf(CONFIG, d, m))
    \/ CallRenderResults(ResultData(CONFIG, d, m, Undefined))
    \/ CallRenderResults(ResultData(CONFIG, d, m, SavingsOf(CONFIG, d, m)))
    \/ CallRenderComparison(calculateAllModes(CONFIG, d), m)
    \/ CallRenderCarbonoCredits(CreditsData(CONFIG, CreditsOf(CONFIG, d, m)))

Next ==
    \/ \E o \in FormInputs : ChangeOrigin(o)
    \/ \E d \in FormInputs : ChangeDestination(d)
    \/ ToggleManual
    \/ \E v \in FormTyped : TypeDistance(v)
    \/ populateDatalist
    \/ CallGetAllCities
    \/ CallFindDistance(originInput, destinationInput)
    \/ \E d \in FormDistances, m \in Modes : TripCall(d, m)

Spec == Init /\ [][Next]_vars

---------------------------------------------------------------------------
(* The functions taken one call at a time: the arguments are drawn when    *)
(* the page has loaded, and the one call is made on them                   *)

Distances == TableDistances \cup TypedDistances

InitCalls ==
    /\ routes = RoutesDB_routes
    /\ CONFIG = CONFIG_0
    /\ originInput = <<>>
    /\ destinationInput = <<>>
    /\ distanceInput = <<>>
    /\ readOnly = TRUE
    /\ helperText = HelperDefault
    /\ manualChecked = FALSE
    /\ datalist = <<>>
    /\ buttons = Buttons_0
    /\ lastOp = "load"
    /\ \/ \E o \in Inputs, d \in Inputs :
            args = [op |-> "findDistance", origin |-> o, destination |-> d]
       \/ args = [op |-> "getAllCities"]
       \/ \E d \in Distances, m \in Modes : args \in TripArgs(CONFIG_0, d, m)
       \/ \E p \in SavingsPairs :
            args = [op |-> "calculateSavings", emission |-> p[1],
                    baselineEmission |-> p[2]]
       \/ \E m \in UnknownModes :
            \/ args = [op |-> "calculateEmission", distanceKm |-> Dec(430, 0),
                       transportMode |-> m]
            \/ args = [op |-> "renderResults",
                       data |-> [ResultData(CONFIG_0, Dec(430, 0), "car", Undefined)
                                    EXCEPT !.mode = m]]
       \* the price of one whole credit
       \/ args = [op |-> "estimateCreditPrice", credits |-> Dec(1, 0)]
    /\ ret = Undefined

\* the call drawn is a call of op, and is still to be made
Requested(op) == lastOp = "load" /\ args.op = op

NextCalls ==
    \/ Requested("findDistance") /\ CallFindDistance(args.origin, args.destination)
    \/ Requested("getAllCities") /\ CallGetAllCities
    \/ Requested("calculateEmission")
        /\ CallCalculateEmission(args.distanceKm, args.transportMode)
    \/ Requested("calculateAllModes") /\ CallCalculateAllModes(args.distanceKm)
    \/ Requested("calculateSavings")
        /\ CallCalculateSavings(args.emission, args.baselineEmission)
    \/ Requested("calculateCarbonCredits")
        /\ CallCalculateCarbonCredits(args.emissionKg)
    \/ Requested("estimateCreditPrice") /\ CallEstimateCreditPrice(args.credits)
    \/ Requested("renderResults") /\ CallRenderResults(args.data)
    \/ Requested("renderComparison")
        /\ CallRenderComparison(args.modeArray, args.selectedMode)
    \/ Requested("renderCarbonoCredits")
        /\ CallRenderCarbonoCredits(args.creditsData)

SpecCalls == InitCalls /\ [][NextCalls]_vars

---------------------------------------------------------------------------
(* The loading state of the buttons: any sequence of showLoading and       *)
(* hideLoading calls, on any of the buttons                                *)

NextLoading ==
    \/ \E b \in ButtonIds : showLoading(b)
    \/ \E b \in ButtonIds : hideLoading(b)

SpecLoading == Init /\ [][NextLoading]_vars


---------------------------------------------------------------------------
(* Properties *)

\* r matches the pair (o, d) as stored, in either orientation
StoredAs(r, o, d) ==
    \/ r.origin = o /\ r.destination = d
    \/ r.origin = d /\ r.destination = o

\* C1: for every route (A, B, d) stored in RoutesDB.routes, findDistance(A, B)
\* and findDistance(B, A) return d, also for a pair stored more than once or
\* in both orientations.
C1_StoredRouteFound ==
    lastOp = "findDistance" =>
        \A i \in DOMAIN routes :
            StoredAs(routes[i], args.origin, args.destination)
                => ret = Num(routes[i].distanceKm)

\* Goiânia - Brasília is stored in both orientations: the lookup in the
\* orientation stored second has returned its distance
C1_Witness ==
    /\ lastOp = "findDistance"
    /\ args.origin = GoianiaGo
    /\ args.destination = BrasiliaDf
    /\ ret = Num(209)

\* the routes that match the normalized pair of the last findDistance call
MatchingRoutes ==
    {i \in DOMAIN routes :
        StoredAs([origin |-> toLowerCase(routes[i].origin),
                  destination |-> toLowerCase(routes[i].destination)],
                 toLowerCase(trim(args.origin)),
                 toLowerCase(trim(args.destination)))}

\* C2: findDistance returns a distance if and only if some stored route
\* matches the normalized pair in either orientation, and then the distance
\* of such a route; otherwise it returns null.  An input that is empty after
\* trimming always gives null.
C2_FoundIffStored ==
    lastOp = "findDistance" =>
        /\ ret.t = "number" <=> MatchingRoutes # {}
        /\ ret.t = "number" => \E i \in MatchingRoutes : ret.v = routes[i].distanceKm
        /\ ret.t # "number" => ret = Null
        /\ trim(args.origin) = <<>> \/ trim(args.destination) = <<>> => ret = Null

\* a whitespace-only origin was looked up against a stored city: null
C2_Witness ==
    /\ lastOp = "findDistance"
    /\ args.origin # <<>>
    /\ trim(args.origin) = <<>>
    /\ args.destination = NiteroiRj
    /\ ret = Null

\* the result of the last findDistance call is the result for every pair got
\* from it by trimming one input and changing the case of its letters
SameForCaseForms ==
    /\ \A o \in CaseForms(trim(args.origin)) :
            findDistance(routes, o, args.destination) = ret
    /\ \A d \in CaseForms(trim(args.destination)) :
            findDistance(routes, args.origin, d) = ret

\* C3 as stated: for every pair of inputs, the result equals the result for
\* the same pair with surrounding whitespace removed and any change of letter
\* case applied to either input.
C3_AnyCaseChange ==
    lastOp = "findDistance" => SameForCaseForms

\* c is a character of Basic Latin or Latin-1 both of whose cases have the
\* same lower case: every one but the micro sign (its upper case U+039C has the
\* lower case U+03BC) and the sharp s (its upper case is SS)
CaseStable(c) ==
    /\ c \in 0..255
    /\ c \notin {181, 223}
    /\ LowerChar(UpperChar(c)) = LowerChar(c)

CaseStableString(s) == \A i \in DOMAIN s : CaseStable(s[i])

\* C3, amended: the same, for inputs written with the characters of Basic
\* Latin and Latin-1 other than the micro sign and the sharp s; each of them
\* has the same lower case in both of its cases, which U+0131, the dotless i,
\* whose upper case I has the lower case i, has not.
C3_CaseStableInputs ==
    lastOp = "findDistance"
        /\ CaseStableString(args.origin) /\ CaseStableString(args.destination)
    => SameForCaseForms

\* "nITERÓI, rj" after a space was looked up against Rio de Janeiro: 13 km
C3_Witness ==
    /\ lastOp = "findDistance"
    /\ args.origin = Pad(swapCase(NiteroiRj), 1, 0)
    /\ args.destination = RioDeJaneiroRj
    /\ ret = Num(13)

C5_ConfigNeverMutated ==
    /\ routes = RoutesDB_routes
    /\ CONFIG = CONFIG_0
    /\ lastOp = "findDistance"
        => ret = findDistance(RoutesDB_routes, args.origin, args.destination)
    /\ lastOp = "getAllCities" => ret = getAllCities(RoutesDB_routes)
    /\ lastOp = "calculateEmission"
        => ret = calculateEmission(CONFIG_0, args.distanceKm, args.transportMode)
    /\ lastOp = "calculateAllModes"
        => ret = calculateAllModes(CONFIG_0, args.distanceKm)
    /\ lastOp = "calculateCarbonCredits"
        => ret = calculateCarbonCredits(CONFIG_0, args.emissionKg)
    /\ lastOp = "estimateCreditPrice"
        => ret = estimateCreditPrice(CONFIG_0, args.credits)
    /\ lastOp = "renderResults" => ret = renderResults(CONFIG_0, args.data)

\* after the datalist was filled, the box checked and both fields typed, a
\* lookup of São Paulo - Rio de Janeiro returned 430
C5_Witness ==
    /\ datalist # <<>>
    /\ manualChecked
    /\ originInput = SaoPauloSp
    /\ lastOp = "findDistance"
    /\ ret = Num(430)

\* the value of the digits of s from position i on, after the digits acc
RECURSIVE DigitsValue(_, _, _)
DigitsValue(s, i, acc) ==
    IF i > Len(s) THEN acc
    ELSE DigitsValue(s, i + 1,
                     IF s[i] \in 48..57 THEN 10 * acc + (s[i] - 48) ELSE acc)

\* the number a reader takes from the displayed string s, and the decimals
\* it is displayed with: the digits, the sign, the place of the comma
Shown(s) ==
    LET commas == {i \in DOMAIN s : s[i] = 44}
        decimals == IF commas = {} THEN 0 ELSE Len(s) - SetMax(commas)
        magnitude == Dec(DigitsValue(s, 1, 0), decimals)
    IN  [value |-> IF 45 \in {s[i] : i \in DOMAIN s} THEN -magnitude ELSE magnitude,
         decimals |-> decimals]

\* s displays the number x with `decimals` decimals, none of its digits changed
ShownAs(s, x, decimals) == Shown(s) = [value |-> x, decimals |-> decimals]

\* C6: every number rendered by renderResults, renderComparison and
\* renderCarbonoCredits is displayed with the digits and the decimals it was
\* computed with: emission, savedKg, the savings percentage, percentageVsCar
\* and the prices at 2 decimals, the credits at 4.
C6_DisplayedAsComputed ==
    /\ lastOp = "renderResults" /\ ret.t = "html" =>
        /\ ShownAs(ret.emission, args.data.emission, 2)
        /\ ret.savings.shown =>
            /\ ShownAs(ret.savings.savedKg, args.data.savings.savedKg, 2)
            /\ ShownAs(ret.savings.percentage, args.data.savings.percentage, 2)
    /\ lastOp = "renderComparison" =>
        \A i \in DOMAIN ret.items :
            /\ ShownAs(ret.items[i].emission, args.modeArray[i].emission, 2)
            /\ ShownAs(ret.items[i].percentageVsCar,
                       args.modeArray[i].percentageVsCar, 2)
    /\ lastOp = "renderCarbonoCredits" =>
        /\ ShownAs(ret.credits, args.creditsData.credits, 4)
        /\ ShownAs(ret.average, args.creditsData.price.average, 2)
        /\ ShownAs(ret.min, args.creditsData.price.min, 2)
        /\ ShownAs(ret.max, args.creditsData.price.max, 2)

\* x is y rounded to two places, a tie going up; both in units of 10^(-5)
RoundedToCents(x, y) == x % 1000 = 0 /\ x - 500 <= y /\ y < x + 500

\* C7: emission(distanceKm, mode) is distanceKm times the configured factor
\* of the mode, rounded to 2 decimals, for every distance >= 0 and every mode
\* of the set; for bicycle it is 0, and emission(430, car) is 51.60.
C7_EmissionLinearRounded ==
    lastOp = "calculateEmission" /\ args.transportMode \in Modes =>
        /\ ret.t = "number"
        \* the distance in 1/100 km times the factor in g/km: units of 10^(-5) kg
        /\ RoundedToCents(10 * ret.v,
                          (args.distanceKm \div 100)
                            * (CONFIG.EMISSION_FACTORS[args.transportMode] \div 10))
        /\ args.transportMode = "bicycle" => ret.v = 0
        /\ args.distanceKm = Dec(430, 0) /\ args.transportMode = "car"
            => ret.v = Dec(5160, 2)

\* emission(430, car) has returned 51.60
C7_Witness ==
    /\ lastOp = "calculateEmission"
    /\ args.distanceKm = Dec(430, 0)
    /\ args.transportMode = "car"
    /\ ret = Num(Dec(5160, 2))

\* the place of a mode in the declaration {bicycle, car, bus, truck}
Declared(m) ==
    CASE m = "bicycle" -> 1 [] m = "car" -> 2 [] m = "bus" -> 3 [] m = "truck" -> 4

\* C8: allModes(distanceKm) returns exactly one entry for each of the 4 modes,
\* ascending by emission, entries of equal emission in declaration order; for
\* 430 km bicycle is first with 0.00, truck last with 412.80, and car's
\* percentageVsCar is 100.00.
C8_AllModesRanked ==
    lastOp = "calculateAllModes" =>
        /\ Len(ret) = 4
        /\ {ret[i].mode : i \in DOMAIN ret} = {"bicycle", "car", "bus", "truck"}
        /\ \A i, j \in DOMAIN ret :
            i < j =>
                \/ ret[i].emission < ret[j].emission
                \/ /\ ret[i].emission = ret[j].emission
                   /\ Declared(ret[i].mode) < Declared(ret[j].mode)
        /\ args.distanceKm = Dec(430, 0) =>
            /\ ret[1].mode = "bicycle" /\ ret[1].emission = 0
            /\ ret[4].mode = "truck" /\ ret[4].emission = Dec(41280, 2)
            /\ \A i \in DOMAIN ret :
                ret[i].mode = "car" => ret[i].percentageVsCar = Dec(10000, 2)

\* for 0.1 km car and bus both emit 0.01 kg: car, declared first, is ranked
\* before bus
C8_Witness ==
    /\ lastOp = "calculateAllModes"
    /\ ret[2].mode = "car"
    /\ ret[3].mode = "bus"
    /\ ret[2].emission = ret[3].emission
    /\ ret[2].emission > 0

PercentInCents(s, b) ==
    10000 * (s \div b) + (20000 * (s % b) + b) \div (2 * b)

\* what the claim says of savedKg, of the percentage for a baseline above 0,
\* of a baseline of 0 and of its two examples
SavingsAsComputed ==
    LET e == args.emission \div 100
        b == args.baselineEmission \div 100
    IN  /\ isFinite(ret.percentage)
        /\ ret.savedKg = Dec(b - e, 2)
        /\ b > 0 => ret.percentage = Dec(PercentInCents(b - e, b), 2)
        /\ b = 0 => ret.percentage = 0
        /\ e = 5160 /\ b = 5160 => ret.percentage = 0
        /\ e = 0 /\ b = 5160
            => ret = [savedKg |-> Dec(5160, 2), percentage |-> Dec(10000, 2)]

C12_UnknownModeFails ==
    /\ lastOp = "calculateEmission" /\ args.transportMode \notin Modes
        => ret = [t |-> "InvalidModeError"]
    /\ lastOp = "renderResults" /\ args.data.mode \notin Modes
        => ret.t # "html"

\* the distance field is empty or shows findDistance of the current origin
\* and destination
EmptyOrFound ==
    LET found == findDistance(routes, originInput, destinationInput)
    IN  \/ distanceInput = <<>>
        \/ found.t = "number" /\ distanceInput = NumberToString(found.v)

\* a step in which the autofill runs: a change event of #origin or
\* #destination, or the unchecking of the box, the box unchecked after it
AutofillRuns ==
    /\ lastOp' \in {"handleLocationChange", "handleManualDistanceToggle"}
    /\ ~manualChecked'

\* C13: whenever the autofill runs with the manual-distance checkbox
\* unchecked: if both trimmed inputs are non-empty and findDistance returns a
\* distance, the distance field holds exactly that distance and the helper
\* text is the success message; otherwise the distance field is empty.  Hence
\* in every state with the checkbox unchecked the distance field is empty or
\* equals findDistance of the current origin and destination.
C13_AutofillShowsLookup ==
    /\ [][AutofillRuns =>
            LET found == findDistance(routes', originInput', destinationInput')
            IN  IF /\ trim(originInput') # <<>>
                   /\ trim(destinationInput') # <<>>
                   /\ found.t = "number"
                THEN /\ distanceInput' = NumberToString(found.v)
                     /\ helperText' = HelperFound
                ELSE distanceInput' = <<>>]_vars
    /\ [](~manualChecked => EmptyOrFound)

\* São Paulo - Natal is not in the table: the box was unchecked, the
\* autofill ran, and the field is empty whatever had been typed into it
C13_Witness ==
    /\ lastOp = "handleManualDistanceToggle"
    /\ ~manualChecked
    /\ originInput = SaoPauloSp
    /\ destinationInput = NatalRn
    /\ distanceInput = <<>>
    /\ helperText = HelperNotFound

\* C14: from the initial form state, after any sequence of origin,
\* destination and checkbox change events the distance field is read-only if
\* and only if the manual-distance checkbox is unchecked; checking the box
\* also clears the distance field.
C14_ReadOnlyIffUnchecked ==
    /\ [](readOnly <=> ~manualChecked)
    /\ [][~manualChecked /\ manualChecked' => distanceInput' = <<>>]_vars

\* the box was checked while the field showed the 430 km found for São Paulo
\* - Rio de Janeiro: the field is editable and empty
C14_Witness ==
    /\ lastOp = "handleManualDistanceToggle"
    /\ manualChecked
    /\ ~readOnly
    /\ distanceInput = <<>>
    /\ findDistance(routes, originInput, destinationInput) = Num(430)

\* C15: while the manual-distance checkbox is checked, an origin or
\* destination change event leaves the distance field value, its read-only
\* flag and the helper text unchanged.
C15_ManualDistanceKept ==
    [][manualChecked /\ lastOp' = "handleLocationChange"
        => UNCHANGED <<distanceInput, readOnly, helperText>>]_vars

\* with the box checked and 12 km typed, the origin was changed to complete
\* a route of the table: the 12 km are still in the field
C15_Witness ==
    /\ lastOp = "handleLocationChange"
    /\ manualChecked
    /\ distanceInput = NumberToString(12)
    /\ helperText = HelperManual
    /\ findDistance(routes, originInput, destinationInput) = Num(430)

\* C16: for any sequence of showLoading and hideLoading calls on the same
\* button, after a hideLoading call the button is enabled and its text is
\* the text it had before loading started: the text it was created with, or
\* the fallback 'Calcular Emissão' that a hideLoading without a saved text
\* gave it; after a showLoading call the button is disabled.
C16_LoadingRestoresText ==
    \A b \in ButtonIds :
        /\ lastOp = "hideLoading" /\ args.button = b =>
            /\ ~buttons[b].disabled
            /\ buttons[b].textContent \in {Buttons_0[b].textContent, TextFallback}
        /\ lastOp = "showLoading" /\ args.button = b => buttons[b].disabled

\* C17: in renderComparison, for every mode array produced for a distance
\* >= 0, distance 0 included, each mode's bar width is its emission as a
\* percentage of the maximum emission of the array, a value between 0 and
\* 100, and its colour is green when that percentage is at most 25, amber
\* when above 25 and at most 75, orange when above 75 and at most 100, and
\* red only when above 100.
C17_BarsScaledToMaximum ==
    lastOp = "renderComparison" =>
        \A i \in DOMAIN ret.items :
            LET w == ret.items[i].barWidth
                e == args.modeArray[i].emission
                max == MaxEmission(args.modeArray)
            IN  /\ w.t = "number"
                \* w is num / den of 100 %: the emission over the maximum
                /\ w.num = e /\ w.den = max
                /\ 0 <= w.num /\ w.num <= w.den
                /\ ret.items[i].barColor =
                    IF 4 * e <= max THEN ColorGreen
                    ELSE IF 4 * e <= 3 * max THEN ColorAmber
                    ELSE ColorOrange

\* C18: when renderComparison is given the array returned by allModes, whose
\* entries are {mode, emission, percentageVsCar}, every item shows the icon
\* and the label configured for its mode in TRANSPORT_MODES, exactly the item
\* whose mode equals selectedMode carries the selected class and the badge,
\* and the tip is chosen from the first entry.
C18_ItemsShowModeInfo ==
    lastOp = "renderComparison" =>
        /\ \A i \in DOMAIN ret.items :
            LET mode == args.modeArray[i].mode
            IN  /\ ret.items[i].selected <=> mode = args.selectedMode
                /\ ret.items[i].badge <=> mode = args.selectedMode
                /\ ToString(ret.items[i].icon) # ToString(Undefined)
                /\ ToString(ret.items[i].label) # ToString(Undefined)
                /\ ret.items[i].icon = CONFIG.TRANSPORT_MODES[mode].icon
                /\ ret.items[i].label = CONFIG.TRANSPORT_MODES[mode].label
        /\ ret.tip = IF args.modeArray[1].mode = "bicycle" THEN TipBicycle
                     ELSE IF args.modeArray[1].mode = "bus" THEN TipBus
                     ELSE TipOther

\* C19: renderResults includes the savings card if and only if the selected
\* mode is not car and a savings object is present in the data; for car no
\* savings card is rendered even when savings are supplied; the route, the
\* distance, the emission and the transport mode cards are rendered in all
\* cases.
C19_SavingsCardIffNotCar ==
    lastOp = "renderResults" /\ args.data.mode \in Modes =>
        /\ ret.t = "html"
        /\ ret.savings.shown
            <=> args.data.mode # "car" /\ args.data.savings # Undefined
        /\ ret.origin = args.data.origin
        /\ ret.destination = args.data.destination
        /\ ret.distance = formatNumber(args.data.distance, 1)
        /\ ret.emission = formatNumber(args.data.emission, 2)
        /\ ret.icon = CONFIG.TRANSPORT_MODES[args.data.mode].icon
        /\ ret.label = CONFIG.TRANSPORT_MODES[args.data.mode].label
        /\ ret.color = CONFIG.TRANSPORT_MODES[args.data.mode].color

\* the results of a trip by car were rendered with a savings object in the
\* data, and without the savings card
C19_Witness ==
    /\ lastOp = "renderResults"
    /\ args.data.mode = "car"
    /\ args.data.savings # Undefined
    /\ ret.t = "html"
    /\ ~ret.savings.shown

====
